---- MODULE Spec2Model ----
(***************************************************************************)
(* Model of the writing-coach webhook (src/coach.py): the receive_draft    *)
(* handler with its detached enrichment thread, and the pure functions it  *)
(* is built from (compute_metrics, build_memory_context, the trailer       *)
(* parser of get_coaching_response, markdown_to_html).                     *)
(*                                                                         *)
(* Text is modelled at token granularity.  A service reply or a subject    *)
(* line is a sequence of tokens; the three trailer prefixes, the newline   *)
(* and the blank are tokens of their own, so str.startswith, str.replace,  *)
(* str.split('\n') and str.strip act on tokens exactly as they act on the  *)
(* characters those tokens stand for.  A draft body is a sequence of       *)
(* whitespace-delimited words (what str.split() returns).                  *)
(***************************************************************************)
EXTENDS Integers, Sequences, FiniteSets, TLC

VARIABLES
    allowed,       \* os.environ["SAGAR_EMAIL"], a sequence of characters
    clock,         \* the day datetime.now() falls on, counted from the start
    pc,            \* per request: position of the receive_draft handler
    data,          \* per request: the JSON payload of the request
    local,         \* per request: the handler's local variables
    response,      \* per request: what the handler returned to the caller
    bg,            \* per request: position of the background_tasks thread
    SessionLog,    \* the "Session Log" range of the sheet (rows, in order)
    ReadingQueue,  \* the "Reading Queue" range of the sheet
    trace,         \* per request: calls made on the request's behalf
    fn,            \* which pure function a function-level run applies
    arg,           \* its input
    ret            \* its result

vars == <<allowed, clock, pc, data, local, response, bg, SessionLog,
          ReadingQueue, trace, fn, arg, ret>>

(***************************************************************************)
(* Bounds of the model.                                                    *)
(***************************************************************************)
MaxReplyLen == 5      \* tokens in an enumerated service reply
MaxHist == 5          \* rows in an enumerated history list
MaxReq == 2           \* concurrent requests
MaxRuns == 2          \* runs of words in an enumerated text
MaxDay == 1           \* days the clock advances
MaxPast == 49         \* session records in the log before the first request

(***************************************************************************)
(* Token-level string operations.                                          *)
(***************************************************************************)
NL == "\n"
SP == " "

IsSpace(t) == t \in {SP, NL}

RECURSIVE lstrip(_)
lstrip(s) ==
    IF s = <<>> THEN <<>>
    ELSE IF IsSpace(Head(s)) THEN lstrip(Tail(s)) ELSE s

RECURSIVE rstrip(_)
rstrip(s) ==
    IF s = <<>> THEN <<>>
    ELSE IF IsSpace(s[Len(s)]) THEN rstrip(SubSeq(s, 1, Len(s) - 1)) ELSE s

\* str.strip()
strip(s) == rstrip(lstrip(s))

\* str.startswith(prefix), prefix a single token
startswith(line, prefix) == Len(line) > 0 /\ line[1] = prefix

\* str.replace(tok, "")
remove(line, tok) == SelectSeq(line, LAMBDA t : t # tok)

RECURSIVE SplitAcc(_, _, _, _)
SplitAcc(s, sep, cur, acc) ==
    IF s = <<>> THEN Append(acc, cur)
    ELSE IF Head(s) = sep THEN SplitAcc(Tail(s), sep, <<>>, Append(acc, cur))
    ELSE SplitAcc(Tail(s), sep, Append(cur, Head(s)), acc)

\* str.split(sep) for a one-token separator: "" splits into [""]
split(s, sep) == SplitAcc(s, sep, <<>>, <<>>)

RECURSIVE join(_, _)
\* sep.join(lines)
join(sep, lines) ==
    IF lines = <<>> THEN <<>>
    ELSE IF Len(lines) = 1 THEN lines[1]
    ELSE lines[1] \o <<sep>> \o join(sep, Tail(lines))

RECURSIVE SeqsUpTo(_, _)
\* all sequences over S of length at most n
SeqsUpTo(S, n) ==
    IF n = 0 THEN {<<>>}
    ELSE LET shorter == SeqsUpTo(S, n - 1)
         IN  shorter \cup {Append(s, x) : s \in shorter, x \in S}

(***************************************************************************)
(* The trailer parser of get_coaching_response.                            *)
(***************************************************************************)
PATTERNS == "PATTERNS:"
SUMMARY == "SUMMARY:"
DOMINANT_WEAKNESS == "DOMINANT_WEAKNESS:"

\* lines 241-247, 281-289: the closed set of weakness codes
WeaknessCodes == {"W1", "W2", "W3", "W4", "W5", "W6", "W7"}

ParseStartNoFallback ==
    [patterns |-> <<>>, summary |-> <<>>, dominant |-> <<>>,
     clean_lines |-> <<>>]

\* lines 473-476: the state of the parsing loop before its first line
ParseStart ==
    [patterns |-> <<>>, summary |-> <<>>, dominant |-> <<"W3">>,
     clean_lines |-> <<>>]

\* a parser that takes a prefix anywhere in the line for a trailer
ParseLineAnywhere(p, line) ==
    IF \E i \in 1..Len(line) : line[i] = PATTERNS
        THEN [p EXCEPT !.patterns = strip(remove(line, PATTERNS))]
    ELSE IF \E i \in 1..Len(line) : line[i] = SUMMARY
        THEN [p EXCEPT !.summary = strip(remove(line, SUMMARY))]
    ELSE IF \E i \in 1..Len(line) : line[i] = DOMINANT_WEAKNESS
        THEN [p EXCEPT !.dominant = strip(remove(line, DOMINANT_WEAKNESS))]
    ELSE [p EXCEPT !.clean_lines = Append(@, line)]

\* a parser that takes the text of a DOMINANT_WEAKNESS: line only when it is
\* a weakness code
ParseLineCodesOnly(p, line) ==
    IF startswith(line, PATTERNS)
        THEN [p EXCEPT !.patterns = strip(remove(line, PATTERNS))]
    ELSE IF startswith(line, SUMMARY)
        THEN [p EXCEPT !.summary = strip(remove(line, SUMMARY))]
    ELSE IF startswith(line, DOMINANT_WEAKNESS)
        THEN IF strip(remove(line, DOMINANT_WEAKNESS)) \in {<<w>> : w \in WeaknessCodes}
             THEN [p EXCEPT !.dominant = strip(remove(line, DOMINANT_WEAKNESS))]
             ELSE p
    ELSE [p EXCEPT !.clean_lines = Append(@, line)]

\* one iteration of the loop over full_response.split('\n')
ParseLine(p, line) ==
    IF startswith(line, PATTERNS)
        THEN [p EXCEPT !.patterns = strip(remove(line, PATTERNS))]
    ELSE IF startswith(line, SUMMARY)
        THEN [p EXCEPT !.summary = strip(remove(line, SUMMARY))]
    ELSE IF startswith(line, DOMINANT_WEAKNESS)
        THEN [p EXCEPT !.dominant = strip(remove(line, DOMINANT_WEAKNESS))]
    ELSE [p EXCEPT !.clean_lines = Append(@, line)]

RECURSIVE ParseLoop(_, _)
ParseLoop(p, lines) ==
    IF lines = <<>> THEN p
    ELSE ParseLoop(ParseLine(p, Head(lines)), Tail(lines))

\* feedback = '\n'.join(clean_lines).strip()
Feedback(clean_lines) == strip(join(NL, clean_lines))

\* lines 472-484: the reply parsed into feedback and the three trailer fields
parse_reply(full_response) ==
    LET p == ParseLoop(ParseStart, split(full_response, NL))
    IN  [feedback |-> Feedback(p.clean_lines),
         patterns |-> p.patterns,
         summary |-> p.summary,
         dominant_weakness |-> p.dominant]

(***************************************************************************)
(* compute_metrics.  A word is a record [base, punct]: the letters of the  *)
(* word and the punctuation that trails it ("" or ".").  lower, isupper0   *)
(* and BaseLen give, for each base of the vocabulary, what the Python      *)
(* string operations return on it.                                         *)
(***************************************************************************)
Bases == {"the", "walked", "idea", "maybe", "Delhi", "The"}

\* str.lower() on a base of the vocabulary or on a character
lower(b) == CASE b = "Delhi" -> "delhi"
              [] b = "The" -> "the"
              [] b = "A" -> "a"
              [] b = "B" -> "b"
              [] OTHER -> b

\* base[0].isupper()
isupper0(b) == b \in {"Delhi", "The"}

\* len(base)
BaseLen(b) == CASE b \in {"the", "The"} -> 3
                [] b \in {"idea"} -> 4
                [] b \in {"maybe", "Delhi"} -> 5
                [] OTHER -> 6

ABSTRACT_WORDS ==
    {"concept", "idea", "notion", "theory", "principle", "aspect",
     "factor", "element", "system", "process", "approach", "framework",
     "perspective", "context", "dynamic", "paradigm", "narrative",
     "discourse", "phenomenon", "essence", "nature", "reality", "truth",
     "value", "belief", "understanding", "experience", "knowledge",
     "awareness", "consciousness", "existence", "relationship",
     "situation", "condition", "environment", "culture", "society",
     "community", "structure", "institution", "development", "potential",
     "impact", "influence", "significance", "importance", "relevance",
     "implication"}
QUALIFIER_WORDS ==
    {"perhaps", "maybe", "possibly", "probably", "arguably", "seemingly",
     "apparently", "somewhat", "quite", "rather", "fairly", "relatively",
     "generally", "usually", "often", "sometimes", "occasionally",
     "largely", "mostly", "mainly", "essentially", "basically",
     "fundamentally", "virtually", "nearly", "almost", "sort", "kind",
     "way", "unsubstantiated", "subjective", "opinion", "think", "believe",
     "feel", "suppose", "guess", "reckon", "suspect", "wonder", "seem",
     "appear"}
SCENE_INDICATORS ==
    {"said", "walked", "sat", "stood", "looked", "heard", "saw", "felt",
     "touched", "smelled", "tasted", "opened", "closed", "moved", "turned",
     "smiled", "laughed", "cried", "whispered", "shouted", "nodded",
     "shook", "reached", "grabbed", "placed", "picked", "put", "took",
     "held", "carried", "entered", "left", "arrived", "stopped", "started",
     "began", "watched", "noticed", "realized", "remembered", "forgot",
     "asked", "answered", "replied", "told", "showed", "pointed", "pulled",
     "pushed"}

\* the three stop lists of lines 113, 141 and 154-159
ConcreteStop == {"i", "the", "a", "an"}
SpecificityStop == ConcreteStop \cup {"but", "and", "or"}
ProperStop ==
    SpecificityStop \cup
    {"so", "yet", "for", "nor", "in", "on", "at", "to", "by", "if", "as",
     "monday", "tuesday", "wednesday", "thursday", "friday", "saturday",
     "sunday", "january", "february", "march", "april", "may", "june",
     "july", "august", "september", "october", "november", "december"}

\* w.lower().strip('.,!?;:"\'')
lower_strip(w) == lower(w.base)

\* w.lower() in stop: the trailing punctuation is part of w
InStop(w, stop) == w.punct = "" /\ lower(w.base) \in stop

WordLen(w) == BaseLen(w.base) + (IF w.punct = "" THEN 0 ELSE 1)

Max(a, b) == IF a >= b THEN a ELSE b
Min(a, b) == IF a <= b THEN a ELSE b

\* round(num / den, k) as an integer number of 10^-k units, den > 0.
\* Ties go to the even neighbour, as Python's round does on a value that
\* is exactly halfway.
RoundDiv(num, den) ==
    LET q == num \div den
        r == num - q * den
    IN  IF 2 * r < den THEN q
        ELSE IF 2 * r > den THEN q + 1
        ELSE IF q % 2 = 0 THEN q ELSE q + 1

RECURSIVE SqrtSearch(_, _, _)
\* the largest t in lo..hi with (2t-1)^2 <= bound (lo satisfies it)
SqrtSearch(bound, lo, hi) ==
    IF lo = hi THEN lo
    ELSE LET mid == (lo + hi + 1) \div 2
         IN  IF (2 * mid - 1) * (2 * mid - 1) <= bound
                 THEN SqrtSearch(bound, mid, hi)
                 ELSE SqrtSearch(bound, lo, mid - 1)

\* round(math.sqrt(s / n^2), 1) in tenths: the integer nearest 10*sqrt(s)/n
RoundSqrtTenths(s, n) ==
    LET bound == (400 * s) \div (n * n)
        t == SqrtSearch(bound, 0, 4096)
        tie == t > 0 /\ (2 * t - 1) * (2 * t - 1) * n * n = 400 * s
    IN  IF tie /\ t % 2 = 1 THEN t - 1 ELSE t

RECURSIVE Fragments(_, _)
\* token counts of the fragments of re.split(r'[.!?]+', text), from the
\* word after position done on
Fragments(ws, done) ==
    LET ends == {i \in (done + 1)..Len(ws) : ws[i].punct = "."}
    IN  IF ends = {} THEN <<Len(ws) - done>>
        ELSE LET e == CHOOSE i \in ends : \A j \in ends : i <= j
             IN  <<e - done>> \o Fragments(ws, e)

\* line 103: the fragments of more than two tokens
Sentences(ws) == SelectSeq(Fragments(ws, 0), LAMBDA l : l > 2)

RECURSIVE SumSeq(_)
SumSeq(s) == IF s = <<>> THEN 0 ELSE Head(s) + SumSeq(Tail(s))

\* lines 117-123, in tenths
VarietyScore(ws) ==
    LET sentence_lengths == SelectSeq(Sentences(ws), LAMBDA l : l > 1)
        n == Len(sentence_lengths)
        sum == SumSeq(sentence_lengths)
        squares == SumSeq([i \in 1..n |-> sentence_lengths[i] * sentence_lengths[i]])
    IN  IF n > 2 THEN RoundSqrtTenths(n * squares - sum * sum, n) ELSE 0

IsProper(i, w, stop) == i > 1 /\ isupper0(w.base) /\ ~InStop(w, stop)
IsAbstract(w) == lower_strip(w) \in ABSTRACT_WORDS
IsQualifier(w) == lower_strip(w) \in QUALIFIER_WORDS
IsScene(w) == lower_strip(w) \in SCENE_INDICATORS

\* sum(1 for w in words_lower if w in ...), and the counts over enumerate
NumAbstract(ws) == Cardinality({i \in 1..Len(ws) : IsAbstract(ws[i])})
NumQualifier(ws) == Cardinality({i \in 1..Len(ws) : IsQualifier(ws[i])})
NumScene(ws) == Cardinality({i \in 1..Len(ws) : IsScene(ws[i])})
NumProper(ws, stop) == Cardinality({i \in 1..Len(ws) : IsProper(i, ws[i], stop)})

\* lines 139-144 with the rounding of lines 146-148, in thousandths
specificity(word_list) ==
    LET proper == NumProper(word_list, SpecificityStop)
        scene == NumScene(word_list)
        abstract == NumAbstract(word_list)
    IN  RoundDiv(1000 * (proper + scene - abstract), Max(Len(word_list), 1))

\* words[a:b] for 0 <= a, b
Slice(ws, a, b) == SubSeq(ws, a + 1, Min(b, Len(ws)))

EmptyScorecard == [empty |-> TRUE]

MinScoredWords == 50

\* line 114: max(abstract_count, 1)
AbstractDenominator(abstract_count) == Max(abstract_count, 1)

ScoreThresholdOffByOne(word_count) == word_count <= MinScoredWords

\* line 106
TooShort(word_count) == word_count < MinScoredWords

\* lines 100-171.  Rates are integers in the unit they are rounded to:
\* hundredths for the ratio, tenths for the others.
compute_metrics(words) ==
    LET word_count == Len(words)
        abstract_count == NumAbstract(words)
        concrete_count == NumProper(words, ConcreteStop)
        qualifier_count == NumQualifier(words)
        scene_verb_count == NumScene(words)
        opening == Slice(words, 0, 50)
        closing == Slice(words, Max(word_count - 50, 0), word_count)
        middle == IF word_count > 100 THEN Slice(words, 50, word_count - 50)
                  ELSE words
        middle_score == IF middle # <<>> THEN specificity(middle) ELSE 0
        proper_nouns == Cardinality({i \in 1..Len(words) :
                            WordLen(words[i]) > 1 /\ IsProper(i, words[i], ProperStop)})
    IN  IF TooShort(word_count) THEN EmptyScorecard
        ELSE [empty |-> FALSE,
              word_count |-> word_count,
              concrete_abstract_ratio |->
                  RoundDiv(100 * concrete_count, AbstractDenominator(abstract_count)),
              sentence_variety_sd |-> VarietyScore(words),
              qualifier_per_500 |-> RoundDiv(qualifier_count * 5000, word_count),
              scene_ratio_pct |-> RoundDiv(scene_verb_count * 1000, word_count),
              opening_strong |-> specificity(opening) >= middle_score,
              closing_strong |-> specificity(closing) >= middle_score,
              proper_nouns_per_500 |-> RoundDiv(proper_nouns * 5000, word_count)]

\* A text written as runs: n copies of a word, with a full stop after every
\* sent-th copy (sent = 0: no full stop).
RunWords(run) ==
    [i \in 1..run.n |->
        [base |-> run.base,
         punct |-> IF run.sent > 0 /\ i % run.sent = 0 THEN "." ELSE ""]]

RECURSIVE Expand(_)
Expand(runs) ==
    IF runs = <<>> THEN <<>> ELSE RunWords(Head(runs)) \o Expand(Tail(runs))

(***************************************************************************)
(* format_metrics_for_email and format_metrics_for_sheet.                  *)
(***************************************************************************)
\* lines 173-192: "" for an empty scorecard, else the header and one line
\* per measure with its judgment against the fixed threshold
format_metrics_for_email(m) ==
    IF m.empty THEN <<>>
    ELSE <<[label |-> "DRAFT METRICS", value |-> m.word_count, good |-> TRUE],
           [label |-> "Concrete-Abstract Ratio",
            value |-> m.concrete_abstract_ratio,
            good |-> m.concrete_abstract_ratio > 150],
           [label |-> "Sentence Variety", value |-> m.sentence_variety_sd,
            good |-> m.sentence_variety_sd > 60],
           [label |-> "Qualifier Density", value |-> m.qualifier_per_500,
            good |-> ~(m.qualifier_per_500 > 50)],
           [label |-> "Scene Ratio", value |-> m.scene_ratio_pct,
            good |-> m.scene_ratio_pct >= 300],
           [label |-> "Opening Strength", value |-> 0, good |-> m.opening_strong],
           [label |-> "Closing Strength", value |-> 0, good |-> m.closing_strong],
           [label |-> "Proper Noun Specificity", value |-> m.proper_nouns_per_500,
            good |-> m.proper_nouns_per_500 > 80]>>

YesNo(b) == IF b THEN "Yes" ELSE "No"

\* lines 194-207: seven blank cells for an empty scorecard, else eight cells
format_metrics_for_sheet(m) ==
    IF m.empty THEN [i \in 1..7 |-> <<>>]
    ELSE <<<<m.word_count>>, <<m.concrete_abstract_ratio>>,
           <<m.sentence_variety_sd>>, <<m.qualifier_per_500>>,
           <<m.scene_ratio_pct>>, <<YesNo(m.opening_strong)>>,
           <<YesNo(m.closing_strong)>>, <<m.proper_nouns_per_500>>>>

(***************************************************************************)
(* markdown_to_html.  The document is the list of its paragraph blocks,    *)
(* the metrics panel and the reading panel.                                *)
(***************************************************************************)
BOLD == "**"
RULE == "---"

RECURSIVE Bold(_)
\* re.sub(r'\*\*(.*?)\*\*', r'<strong>\1</strong>', text): '.' stops at '\n'
Bold(s) ==
    IF s = <<>> THEN <<>>
    ELSE IF Head(s) # BOLD THEN <<Head(s)>> \o Bold(Tail(s))
    ELSE LET rest == Tail(s)
             closers == {i \in 1..Len(rest) :
                            /\ rest[i] = BOLD
                            /\ \A j \in 1..(i - 1) : rest[j] # NL}
         IN  IF closers = {} THEN <<Head(s)>> \o Bold(rest)
             ELSE LET c == CHOOSE i \in closers : \A k \in closers : i <= k
                  IN  <<"<strong>">> \o SubSeq(rest, 1, c - 1) \o <<"</strong>">>
                      \o Bold(SubSeq(rest, c + 1, Len(rest)))

RECURSIVE Rules(_)
\* re.sub(r'\n---\n', '\n<hr ...>\n', text)
Rules(s) ==
    IF Len(s) < 3 THEN s
    ELSE IF s[1] = NL /\ s[2] = RULE /\ s[3] = NL
        THEN <<NL, "<hr>", NL>> \o Rules(SubSeq(s, 4, Len(s)))
        ELSE <<Head(s)>> \o Rules(Tail(s))

RECURSIVE ParagraphAcc(_, _, _)
ParagraphAcc(s, cur, acc) ==
    IF s = <<>> THEN Append(acc, cur)
    ELSE IF Len(s) >= 2 /\ s[1] = NL /\ s[2] = NL
        THEN ParagraphAcc(SubSeq(s, 3, Len(s)), <<>>, Append(acc, cur))
        ELSE ParagraphAcc(Tail(s), Append(cur, Head(s)), acc)

\* text.split('\n\n')
Paragraphs(s) == ParagraphAcc(s, <<>>, <<>>)

\* lines 348-355: one block of the body, for a stripped non-empty paragraph
Block(p) ==
    IF startswith(p, "<hr>") THEN [tag |-> "hr", content |-> p]
    ELSE [tag |-> "p",
          content |-> [i \in 1..Len(p) |-> IF p[i] = NL THEN "<br>" ELSE p[i]]]

NoRec == [found |-> FALSE]

\* lines 342-391
markdown_to_html(text, metrics_text, reading_rec) ==
    LET stripped == [i \in 1..Len(Paragraphs(Rules(Bold(text)))) |->
                        strip(Paragraphs(Rules(Bold(text)))[i])]
        kept == SelectSeq(stripped, LAMBDA p : p # <<>>)
    IN  [body |-> [i \in 1..Len(kept) |-> Block(kept[i])],
         metrics_html |-> metrics_text,
         reading_html |-> IF reading_rec.found /\ reading_rec.title # <<>>
                          THEN reading_rec ELSE NoRec]

(***************************************************************************)
(* build_memory_context.  A row of the session log is a sequence of cells: *)
(* date, title, word count, patterns, summary, metrics, recommendation;    *)
(* a cell is a token sequence, the empty cell is <<>>.  The context is the *)
(* sentinel or the header followed by the rendered lines.                  *)
(***************************************************************************)
MemoryRows == 4

FirstSession == [first |-> TRUE, lines |-> <<>>]

LastRowsOneMore(session_log) ==
    SubSeq(session_log, Max(Len(session_log) - MemoryRows, 1), Len(session_log))

\* session_log[-4:]
LastRows(session_log) ==
    SubSeq(session_log, Max(Len(session_log) - MemoryRows + 1, 1), Len(session_log))

\* lines 404-407: the lines one row contributes
RenderRow(row) ==
    IF Len(row) >= 5
    THEN <<[kind |-> "session", date |-> row[1], title |-> row[2],
            patterns |-> row[4], summary |-> row[5]]>>
         \o (IF Len(row) > 5 /\ row[6] # <<>>
             THEN <<[kind |-> "metrics", metrics |-> row[6]]>>
             ELSE <<>>)
    ELSE <<>>

RECURSIVE RenderRows(_)
RenderRows(rows) ==
    IF rows = <<>> THEN <<>> ELSE RenderRow(Head(rows)) \o RenderRows(Tail(rows))

\* lines 398-408
build_memory_context(session_log) ==
    IF session_log = <<>> THEN FirstSession
    ELSE [first |-> FALSE, lines |-> RenderRows(LastRows(session_log))]

(***************************************************************************)
(* get_coaching_response, get_no_draft_response, get_live_reading_rec:     *)
(* what each does with the reply of the external service.                  *)
(***************************************************************************)
\* lines 411-492, given the reply of the generative-text service
get_coaching_response(draft_text, session_log, full_response) ==
    LET parsed == parse_reply(full_response)
    IN  [feedback |-> parsed.feedback,
         patterns |-> parsed.patterns,
         summary |-> parsed.summary,
         dominant_weakness |-> parsed.dominant_weakness,
         metrics |-> compute_metrics(draft_text)]

\* lines 413-469: what the coaching prompt embeds (the draft by its word count)
CoachingPrompt(draft_text, session_log) ==
    [kind |-> "coaching",
     memory |-> build_memory_context(session_log),
     metrics |-> compute_metrics(draft_text),
     content |-> Len(draft_text)]

NoMemory == [first |-> FALSE, lines |-> <<>>]

\* lines 497-505: the excuse prompt embeds the coaching profile and the text
ExcusePrompt(reason) ==
    [kind |-> "excuse", memory |-> NoMemory, metrics |-> EmptyScorecard,
     content |-> Len(reason)]

\* line 506: the reply is returned as it came
get_no_draft_response(reason, reply) == reply

\* lines 281-291: problem_map.get(dominant_weakness, fallback)
Problem(dominant_weakness) ==
    IF Len(dominant_weakness) = 1 /\ dominant_weakness[1] \in WeaknessCodes
    THEN dominant_weakness[1]
    ELSE "scene-building and specificity"

TITLE == "TITLE:"
AUTHOR == "AUTHOR:"
WHY == "WHY:"
WHERE == "WHERE:"

RecLine(rec, line) ==
    IF startswith(line, TITLE)
        THEN [rec EXCEPT !.title = strip(remove(line, TITLE))]
    ELSE IF startswith(line, AUTHOR)
        THEN [rec EXCEPT !.author = strip(remove(line, AUTHOR))]
    ELSE IF startswith(line, WHY)
        THEN [rec EXCEPT !.why = strip(remove(line, WHY))]
    ELSE IF startswith(line, WHERE)
        THEN [rec EXCEPT !.where = strip(remove(line, WHERE))]
    ELSE rec

RECURSIVE RecLoop(_, _)
RecLoop(rec, lines) ==
    IF lines = <<>> THEN rec ELSE RecLoop(RecLine(rec, Head(lines)), Tail(lines))

\* lines 324-331: the search reply parsed; no title means no recommendation
ParseRec(text) ==
    LET rec == RecLoop([found |-> TRUE, title |-> <<>>, author |-> <<>>,
                        why |-> <<>>, where |-> <<>>], split(text, NL))
    IN  IF rec.title # <<>> THEN rec ELSE NoRec

(***************************************************************************)
(* The store: read_sheet and append_sheet.  A stored row carries its cells *)
(* and, for the analysis only, the request that appended it.               *)
(***************************************************************************)
ReadMaxRows == 6
SessionLogRangeRows == 49    \* "Session Log!A2:H50"

\* lines 43-47: the rows of the range, the last max_rows of them
read_sheet(rows, range_rows, max_rows) ==
    LET in_range == SubSeq(rows, 1, Min(Len(rows), range_rows))
        cells == [i \in 1..Len(in_range) |-> in_range[i].cells]
    IN  IF Len(cells) > max_rows
        THEN SubSeq(cells, Len(cells) - max_rows + 1, Len(cells))
        ELSE cells

\* a store that inserts the new row above the rows of the range
append_sheet_on_top(rows, r, row) == <<[req |-> r, cells |-> row]>> \o rows

\* lines 52-59: one row appended at the end of the range
append_sheet(rows, r, row) == Append(rows, [req |-> r, cells |-> row])

(***************************************************************************)
(* Requests.  A payload field is present with a value or missing;          *)
(* data.get(key, "") gives the value or the empty string.                  *)
(***************************************************************************)
Reqs == 1..MaxReq

Field(v) == [has |-> TRUE, v |-> v]
Missing == [has |-> FALSE, v |-> <<>>]

\* bodies, as runs of words: empty, 80 words, 81 words, 90 words of which
\* 10 are scene verbs
Body80 == <<[base |-> "the", n |-> 80, sent |-> 10]>>
Body81 == <<[base |-> "the", n |-> 80, sent |-> 10],
            [base |-> "idea", n |-> 1, sent |-> 0]>>
Body90 == <<[base |-> "the", n |-> 80, sent |-> 10],
            [base |-> "walked", n |-> 10, sent |-> 0]>>
Bodies == {<<>>, Body80, Body81, Body90}

Essay == <<"Re:", SP, "Essay">>
AllowedIds == {<<>>, <<"a", "b">>}

\* the payloads tried: none; a sender only; a draft from another sender;
\* each body (or none) from the sender <<"A", "B">>, the longest one
\* without a subject
Payloads ==
    {[body |-> Missing, from |-> Missing, subject |-> Missing],
     [body |-> Missing, from |-> Field(<<"A", "B">>), subject |-> Missing],
     [body |-> Field(Body81), from |-> Field(<<"b">>), subject |-> Field(Essay)],
     [body |-> Field(Body81), from |-> Missing, subject |-> Field(Essay)],
     [body |-> Field(Body90), from |-> Field(<<"A", "B">>), subject |-> Missing]}
    \cup {[body |-> Field(b), from |-> Field(<<"A", "B">>), subject |-> Field(Essay)] :
             b \in {<<>>, Body80, Body81}}

\* replies of the generative-text service to the coaching prompt
TrailerReply ==
    <<"x", NL, PATTERNS, SP, "W1", NL, SUMMARY, SP, "x", NL,
      DOMINANT_WEAKNESS, SP, "W1">>

CoachReplies == {TrailerReply, <<SP, "x", NL>>}

\* replies of the service to the excuse prompt
ExcuseReplies == {<<"x">>, <<PATTERNS, SP, "W1", NL, NL, "x">>}

\* replies of the search-augmented service
TitledReply == <<TITLE, SP, "t", NL, AUTHOR, SP, "u">>

SearchReplies == {TitledReply, <<"x">>}

FalsyWithoutBody(d) == ~d.body.has

\* "if not data": the payload is None or has no key
Falsy(d) == ~d.body.has /\ ~d.from.has /\ ~d.subject.has

LowerSeq(x) == [i \in 1..Len(x) |-> lower(x[i])]

\* needle in hay
contains(hay, needle) ==
    \E i \in 0..(Len(hay) - Len(needle)) :
        SubSeq(hay, i + 1, i + Len(needle)) = needle

UnauthorizedReversed(allowed_id, sender) ==
    allowed_id # <<>> /\ ~contains(LowerSeq(allowed_id), LowerSeq(sender))

\* line 569: allowed and allowed.lower() not in sender.lower()
Unauthorized(allowed_id, sender) ==
    allowed_id # <<>> /\ ~contains(LowerSeq(sender), LowerSeq(allowed_id))

DraftThreshold == 80

IsDraftInclusive(word_count) == word_count >= DraftThreshold

\* line 576
IsDraft(word_count) == word_count > DraftThreshold

\* line 578: re.sub(r"Re:|Writing Coach", "", subject).strip() or "Untitled"
DraftTitle(subject) ==
    LET t == strip(SelectSeq(subject, LAMBDA x : x \notin {"Re:", "Writing Coach"}))
    IN  IF t # <<>> THEN t ELSE <<"Untitled">>

NoResult ==
    [feedback |-> <<>>, patterns |-> <<>>, summary |-> <<>>,
     dominant_weakness |-> <<>>, metrics |-> EmptyScorecard]

LocalStart ==
    [sheets |-> FALSE, session_log |-> <<>>, word_count |-> 0,
     result |-> NoResult, draft_title |-> <<>>, rec |-> NoRec,
     row_date |-> 0, queue_date |-> 0]

TraceStart ==
    [reads |-> 0, seen |-> 0, calls |-> 0, prompts |-> <<>>,
     replies |-> <<>>, threads |-> 0, searches |-> <<>>, appends |-> <<>>]

NoResponse == [status |-> 0]

Idle ==
    /\ clock = 0
    /\ pc = [r \in Reqs |-> "idle"]
    /\ data = [r \in Reqs |-> [body |-> Missing, from |-> Missing, subject |-> Missing]]
    /\ local = [r \in Reqs |-> LocalStart]
    /\ response = [r \in Reqs |-> NoResponse]
    /\ bg = [r \in Reqs |-> "none"]
    /\ SessionLog = <<>>
    /\ ReadingQueue = <<>>
    /\ trace = [r \in Reqs |-> TraceStart]

NoRet == [done |-> FALSE]

Init ==
    /\ allowed \in AllowedIds
    /\ Idle
    /\ fn = "receive_draft"
    /\ arg = <<>>
    /\ ret = NoRet

(***************************************************************************)
(* receive_draft.                                                          *)
(***************************************************************************)
\* lines 560-576: the payload checked, the store read, the route chosen.
\* sh: get_sheets_service() returned a service; readok: the read succeeded.
Receive(r, d, sh, readok) ==
    /\ fn = "receive_draft"
    /\ pc[r] = "idle"
    /\ r > 1 => pc[r - 1] # "idle"
    /\ data' = [data EXCEPT ![r] = d]
    /\ IF Falsy(d)
       THEN /\ response' = [response EXCEPT ![r] = [status |-> 400, error |-> "No data"]]
            /\ pc' = [pc EXCEPT ![r] = "done"]
            /\ UNCHANGED <<local, trace>>
       ELSE IF Unauthorized(allowed, d.from.v)
       THEN /\ response' = [response EXCEPT ![r] = [status |-> 403, error |-> "Unauthorized"]]
            /\ pc' = [pc EXCEPT ![r] = "done"]
            /\ UNCHANGED <<local, trace>>
       ELSE LET word_count == Len(Expand(d.body.v))
                session_log == IF sh /\ readok
                               THEN read_sheet(SessionLog, SessionLogRangeRows, ReadMaxRows)
                               ELSE <<>>
            IN  /\ local' = [local EXCEPT ![r].sheets = sh,
                                          ![r].session_log = session_log,
                                          ![r].word_count = word_count]
                /\ trace' = [trace EXCEPT
                       ![r].reads = IF sh THEN 1 ELSE 0,
                       ![r].seen = IF sh /\ readok THEN Len(SessionLog) ELSE 0]
                /\ pc' = [pc EXCEPT ![r] = IF IsDraft(word_count) THEN "coach" ELSE "excuse"]
                /\ UNCHANGED response
    /\ UNCHANGED <<allowed, clock, bg, SessionLog, ReadingQueue, fn, arg, ret>>

\* lines 577-607: the service replied; the reply is parsed and the
\* background thread started
CoachReply(r, reply) ==
    /\ pc[r] = "coach"
    /\ LET draft_text == Expand(data[r].body.v)
       IN  /\ local' = [local EXCEPT
                 ![r].result = get_coaching_response(draft_text, local[r].session_log, reply),
                 ![r].draft_title = DraftTitle(data[r].subject.v)]
           /\ trace' = [trace EXCEPT
                 ![r].calls = @ + 1,
                 ![r].prompts = Append(@, CoachingPrompt(draft_text, local[r].session_log)),
                 ![r].replies = Append(@, reply),
                 ![r].threads = @ + 1]
    /\ bg' = [bg EXCEPT ![r] = "search"]
    /\ pc' = [pc EXCEPT ![r] = "respond"]
    /\ UNCHANGED <<allowed, clock, data, response, SessionLog, ReadingQueue, fn, arg, ret>>

\* a handler that calls the service again when the call raised
CoachFailRetry(r) ==
    /\ pc[r] = "coach"
    /\ trace' = [trace EXCEPT ![r].calls = @ + 1]
    /\ UNCHANGED <<allowed, clock, pc, data, local, response, bg, SessionLog,
                   ReadingQueue, fn, arg, ret>>

\* line 465 raises: the exception leaves receive_draft
CoachFail(r) ==
    /\ pc[r] = "coach"
    /\ trace' = [trace EXCEPT
          ![r].calls = @ + 1,
          ![r].prompts = Append(@, CoachingPrompt(Expand(data[r].body.v),
                                                  local[r].session_log))]
    /\ response' = [response EXCEPT ![r] = [status |-> 500, error |-> "exception"]]
    /\ pc' = [pc EXCEPT ![r] = "done"]
    /\ UNCHANGED <<allowed, clock, data, local, bg, SessionLog, ReadingQueue, fn, arg, ret>>

CoachResponseWithRec(r) ==
    [status |-> 200,
     subject |-> <<"Coach Feedback">> \o local[r].draft_title,
     body |-> markdown_to_html(local[r].result.feedback,
                               format_metrics_for_email(local[r].result.metrics),
                               local[r].rec)]

\* lines 608-615 on the coaching route
CoachResponse(r) ==
    [status |-> 200,
     subject |-> <<"Coach Feedback">> \o local[r].draft_title,
     body |-> markdown_to_html(local[r].result.feedback,
                               format_metrics_for_email(local[r].result.metrics),
                               NoRec)]

Respond(r) ==
    /\ pc[r] = "respond"
    /\ response' = [response EXCEPT ![r] = CoachResponse(r)]
    /\ pc' = [pc EXCEPT ![r] = "done"]
    /\ UNCHANGED <<allowed, clock, data, local, bg, SessionLog, ReadingQueue, trace, fn, arg, ret>>

ExcuseResponseParsed(coaching) ==
    [status |-> 200,
     subject |-> <<"No draft, Sagar.">>,
     body |-> markdown_to_html(parse_reply(coaching).feedback, <<>>, NoRec)]

\* lines 612-615
ExcuseResponse(coaching) ==
    [status |-> 200,
     subject |-> <<"No draft, Sagar.">>,
     body |-> markdown_to_html(coaching, <<>>, NoRec)]

\* lines 611-615: the excuse route
ExcuseReply(r, reply) ==
    /\ pc[r] = "excuse"
    /\ trace' = [trace EXCEPT
          ![r].calls = @ + 1,
          ![r].prompts = Append(@, ExcusePrompt(Expand(data[r].body.v))),
          ![r].replies = Append(@, reply)]
    /\ response' = [response EXCEPT
          ![r] = ExcuseResponse(get_no_draft_response(data[r].body.v, reply))]
    /\ pc' = [pc EXCEPT ![r] = "done"]
    /\ UNCHANGED <<allowed, clock, data, local, bg, SessionLog, ReadingQueue, fn, arg, ret>>

\* line 497 raises
ExcuseFail(r) ==
    /\ pc[r] = "excuse"
    /\ trace' = [trace EXCEPT
          ![r].calls = @ + 1,
          ![r].prompts = Append(@, ExcusePrompt(Expand(data[r].body.v)))]
    /\ response' = [response EXCEPT ![r] = [status |-> 500, error |-> "exception"]]
    /\ pc' = [pc EXCEPT ![r] = "done"]
    /\ UNCHANGED <<allowed, clock, data, local, bg, SessionLog, ReadingQueue, fn, arg, ret>>

(***************************************************************************)
(* background_tasks, the detached thread of lines 584-607.                 *)
(***************************************************************************)
\* the continuation after get_live_reading_rec returned: "if sheets:"
AfterSearch(r) == IF local[r].sheets THEN "log" ELSE "done"

\* line 586: what the search is asked
SearchPrompt(res) ==
    [problem |-> Problem(res.dominant_weakness), patterns |-> res.patterns]

\* lines 586, 295-331: the search replied and the reply is parsed
BgSearch(r, text) ==
    /\ bg[r] = "search"
    /\ local' = [local EXCEPT ![r].rec = ParseRec(text),
                              ![r].row_date = IF local[r].sheets THEN clock ELSE @]
    /\ trace' = [trace EXCEPT ![r].searches = Append(@, SearchPrompt(local[r].result))]
    /\ bg' = [bg EXCEPT ![r] = AfterSearch(r)]
    /\ UNCHANGED <<allowed, clock, pc, data, response, SessionLog, ReadingQueue, fn, arg, ret>>

\* lines 333-335: the search raised; get_live_reading_rec returns None
BgSearchFail(r) ==
    /\ bg[r] = "search"
    /\ local' = [local EXCEPT ![r].rec = NoRec,
                              ![r].row_date = IF local[r].sheets THEN clock ELSE @]
    /\ trace' = [trace EXCEPT ![r].searches = Append(@, SearchPrompt(local[r].result))]
    /\ bg' = [bg EXCEPT ![r] = AfterSearch(r)]
    /\ UNCHANGED <<allowed, clock, pc, data, response, SessionLog, ReadingQueue, fn, arg, ret>>

\* no timeout guards the external calls: the thread may never return
BgHang(r) ==
    /\ bg[r] \in {"search", "log", "queue"}
    /\ bg' = [bg EXCEPT ![r] = "hung"]
    /\ UNCHANGED <<allowed, clock, pc, data, local, response, SessionLog, ReadingQueue,
                   trace, fn, arg, ret>>

\* the request that receive_draft took up last
LatestRequest == CHOOSE r \in Reqs : pc[r] # "idle" /\ \A q \in Reqs : q > r => pc[q] = "idle"

\* a thread that reads the title, the word count and the verdict where the
\* latest request left them
SessionRowOfLatest(r) ==
    LET res == local[LatestRequest].result
        rec == local[r].rec
    IN  <<<<local[r].row_date>>,
          local[LatestRequest].draft_title,
          <<local[LatestRequest].word_count>>,
          res.patterns,
          res.summary,
          join(", ", format_metrics_for_sheet(res.metrics)),
          IF rec.found THEN rec.title \o <<" by ">> \o rec.author ELSE <<>>>>

\* lines 588-596; the date is the day on which the row was built (line 590)
SessionRow(r) ==
    LET res == local[r].result
        rec == local[r].rec
    IN  <<<<local[r].row_date>>,
          local[r].draft_title,
          <<local[r].word_count>>,
          res.patterns,
          res.summary,
          join(", ", format_metrics_for_sheet(res.metrics)),
          IF rec.found THEN rec.title \o <<" by ">> \o rec.author ELSE <<>>>>

\* lines 599-603; the date is the day on which line 600 ran
QueueRow(r) ==
    LET rec == local[r].rec
    IN  <<<<local[r].queue_date>>, rec.title, rec.author, rec.why, <<"No">>>>

\* line 598
HasTitle(rec) == rec.found /\ rec.title # <<>>

\* a thread that gives up on the queue when the session-log append failed
BgAppendLogStopOnFailure(r, ok) ==
    /\ bg[r] = "log"
    /\ SessionLog' = IF ok THEN append_sheet(SessionLog, r, SessionRow(r)) ELSE SessionLog
    /\ trace' = [trace EXCEPT ![r].appends = Append(@, [range |-> "Session Log", ok |-> ok])]
    /\ local' = [local EXCEPT ![r].queue_date = IF HasTitle(local[r].rec) THEN clock ELSE @]
    /\ bg' = [bg EXCEPT ![r] = IF ok /\ HasTitle(local[r].rec) THEN "queue" ELSE "done"]
    /\ UNCHANGED <<allowed, clock, pc, data, response, ReadingQueue, fn, arg, ret>>

\* line 597; ok = FALSE: the append raised and append_sheet swallowed it
\* (lines 60-61).  The thread goes on to line 598 either way.
BgAppendLog(r, ok) ==
    /\ bg[r] = "log"
    /\ SessionLog' = IF ok THEN append_sheet(SessionLog, r, SessionRow(r)) ELSE SessionLog
    /\ trace' = [trace EXCEPT ![r].appends = Append(@, [range |-> "Session Log", ok |-> ok])]
    /\ local' = [local EXCEPT ![r].queue_date = IF HasTitle(local[r].rec) THEN clock ELSE @]
    /\ bg' = [bg EXCEPT ![r] = IF HasTitle(local[r].rec) THEN "queue" ELSE "done"]
    /\ UNCHANGED <<allowed, clock, pc, data, response, ReadingQueue, fn, arg, ret>>

\* lines 598-603
BgAppendQueue(r, ok) ==
    /\ bg[r] = "queue"
    /\ ReadingQueue' = IF ok THEN append_sheet(ReadingQueue, r, QueueRow(r))
                       ELSE ReadingQueue
    /\ trace' = [trace EXCEPT ![r].appends = Append(@, [range |-> "Reading Queue", ok |-> ok])]
    /\ bg' = [bg EXCEPT ![r] = "done"]
    /\ UNCHANGED <<allowed, clock, pc, data, local, response, SessionLog, fn, arg, ret>>

Next ==
    \E r \in Reqs :
        \/ \E d \in Payloads, sh \in BOOLEAN, readok \in BOOLEAN : Receive(r, d, sh, readok)
        \/ \E reply \in CoachReplies : CoachReply(r, reply)
        \/ CoachFail(r)
        \/ Respond(r)
        \/ \E reply \in ExcuseReplies : ExcuseReply(r, reply)
        \/ ExcuseFail(r)
        \/ \E text \in SearchReplies : BgSearch(r, text)
        \/ BgSearchFail(r)
        \/ BgHang(r)
        \/ \E ok \in BOOLEAN : BgAppendLog(r, ok)
        \/ \E ok \in BOOLEAN : BgAppendQueue(r, ok)

Spec == Init /\ [][Next]_vars

(***************************************************************************)
(* The store over several days.  Spec follows the requests of one day on   *)
(* an empty log; SpecLog follows draft-bearing requests, with the store    *)
(* configured, on a log that earlier sessions have filled, while the day   *)
(* turns.                                                                  *)
(***************************************************************************)
\* lines 590, 600: datetime.now() moves on to the next day
Tick ==
    /\ fn = "receive_draft"
    /\ clock < MaxDay
    /\ clock' = clock + 1
    /\ UNCHANGED <<allowed, pc, data, local, response, bg, SessionLog,
                   ReadingQueue, trace, fn, arg, ret>>

\* lines 589-596: record i of the log as an earlier session appended it
PastRow(i) ==
    [req |-> 0,
     cells |-> <<<<0>>, <<"title">>, <<100 + i>>, <<"W1">>, <<"summary">>,
                 <<"metrics">>, <<>>>>]

PastLog(n) == [i \in 1..n |-> PastRow(i)]

\* the lengths tried: an empty log, and logs that end just before and at
\* the last row of the range "Session Log!A2:H50"
PastLengths == {0, MaxPast - 1, MaxPast}

\* a draft of 81 words from the writer
Drafts == {[body |-> Field(Body81), from |-> Field(<<"A", "B">>), subject |-> Field(Essay)]}

InitLog ==
    /\ allowed = <<>>
    /\ clock = 0
    /\ pc = [r \in Reqs |-> "idle"]
    /\ data = [r \in Reqs |-> [body |-> Missing, from |-> Missing, subject |-> Missing]]
    /\ local = [r \in Reqs |-> LocalStart]
    /\ response = [r \in Reqs |-> NoResponse]
    /\ bg = [r \in Reqs |-> "none"]
    /\ SessionLog \in {PastLog(n) : n \in PastLengths}
    /\ ReadingQueue = <<>>
    /\ trace = [r \in Reqs |-> TraceStart]
    /\ fn = "receive_draft"
    /\ arg = <<>>
    /\ ret = NoRet

NextLog ==
    \/ Tick
    \/ \E r \in Reqs :
        \/ \E d \in Drafts, readok \in BOOLEAN : Receive(r, d, TRUE, readok)
        \/ CoachReply(r, TrailerReply)
        \/ CoachFail(r)
        \/ Respond(r)
        \/ BgSearch(r, TitledReply)
        \/ BgSearchFail(r)
        \/ BgHang(r)
        \/ \E ok \in BOOLEAN : BgAppendLog(r, ok)
        \/ \E ok \in BOOLEAN : BgAppendQueue(r, ok)

SpecLog == InitLog /\ [][NextLog]_vars

(***************************************************************************)
(* Function-level specifications: the input is drawn at Init and the       *)
(* function applied once.                                                  *)
(***************************************************************************)
PureInit(name, inputs) ==
    /\ allowed = <<>>
    /\ Idle
    /\ fn = name
    /\ arg \in inputs
    /\ ret = NoRet

Return(name, value) ==
    /\ fn = name
    /\ ~ret.done
    /\ ret' = [done |-> TRUE, val |-> value]
    /\ UNCHANGED <<allowed, clock, pc, data, local, response, bg, SessionLog,
                   ReadingQueue, trace, fn, arg>>

\* service replies: every token sequence up to MaxReplyLen
ReplyTokens == {PATTERNS, SUMMARY, DOMINANT_WEAKNESS, NL, SP, "x", "W1"}
Replies == SeqsUpTo(ReplyTokens, MaxReplyLen)

SampleDraft == Expand(Body81)

InitParse == PureInit("get_coaching_response", Replies)
ApplyParse ==
    Return("get_coaching_response", get_coaching_response(SampleDraft, <<>>, arg))
SpecParse == InitParse /\ [][ApplyParse]_vars

\* history lists: up to MaxHist rows; row i is dated i and has one of the
\* shapes: four cells, five cells, six cells with or without metrics
RowShapes == {"four", "five", "blank-metrics", "metrics"}

ShapedRow(i, shape) ==
    LET five == <<<<i>>, <<"title">>, <<100>>, <<"W1">>, <<"summary">>>>
    IN  CASE shape = "four" -> SubSeq(five, 1, 4)
          [] shape = "five" -> five
          [] shape = "blank-metrics" -> Append(five, <<>>)
          [] OTHER -> Append(five, <<"metrics">>)

Histories ==
    UNION {{[i \in 1..n |-> ShapedRow(i, f[i])] : f \in [1..n -> RowShapes]} :
              n \in 0..MaxHist}

InitMemory == PureInit("build_memory_context", Histories)
ApplyMemory == Return("build_memory_context", build_memory_context(arg))
SpecMemory == InitMemory /\ [][ApplyMemory]_vars

\* texts: up to MaxRuns runs of a base repeated 1, 10, 39, 40 or 80 times,
\* unpunctuated or (two of the bases) with a full stop after every tenth word
RunLengths == {1, 10, 39, 40, 80}
Runs == [base : Bases, n : RunLengths, sent : {0}]
        \cup [base : {"the", "Delhi"}, n : RunLengths, sent : {10}]
Texts == SeqsUpTo(Runs, MaxRuns)

InitMetrics == PureInit("compute_metrics", Texts)
ApplyMetrics == Return("compute_metrics", compute_metrics(Expand(arg)))
SpecMetrics == InitMetrics /\ [][ApplyMetrics]_vars

(***************************************************************************)
(* What a request has caused, read off the state.                          *)
(***************************************************************************)
Handled(r) == pc[r] # "idle"
Rejected(r) == response[r].status \in {400, 403}
Accepted(r) == Handled(r) /\ ~Rejected(r)

\* the words of the body of the request
BodyWords(r) == Expand(data[r].body.v)

\* the request came without any payload
NoPayload(r) == \A k \in {"body", "from", "subject"} : ~data[r][k].has

\* the route an accepted request took
Route(r) ==
    IF pc[r] \in {"coach", "respond"} THEN "coaching"
    ELSE IF pc[r] = "excuse" THEN "excuse"
    ELSE trace[r].prompts[1].kind

RowsOf(rows, r) == {i \in 1..Len(rows) : rows[i].req = r}

NoRowAppended(r) == RowsOf(SessionLog, r) = {} /\ RowsOf(ReadingQueue, r) = {}
NoEnrichment(r) == trace[r].threads = 0 /\ bg[r] = "none" /\ trace[r].searches = <<>>

NoDownstreamWork(r) ==
    /\ trace[r].reads = 0
    /\ trace[r].calls = 0
    /\ NoEnrichment(r)
    /\ NoRowAppended(r)

(***************************************************************************)
(* C1.  For every accepted request the route depends only on the number of *)
(* whitespace-delimited tokens of the body: more than 80 tokens goes to    *)
(* full coaching, 80 or fewer to the excuse path.                          *)
(***************************************************************************)
\* C1: an accepted request of more than 80 tokens is on the coaching route,
\* one of 80 or fewer on the excuse route.
C1_RouteByTokenCount ==
    \A r \in Reqs :
        Accepted(r) =>
            /\ Len(BodyWords(r)) > 80 => Route(r) = "coaching"
            /\ Len(BodyWords(r)) <= 80 => Route(r) = "excuse"

\* both boundary values were served: 80 tokens an excuse, 81 a draft
C1_Witness ==
    \E r1, r2 \in Reqs :
        /\ Accepted(r1) /\ Len(BodyWords(r1)) = 80
        /\ trace[r1].calls = 1 /\ Route(r1) = "excuse"
        /\ Accepted(r2) /\ Len(BodyWords(r2)) = 81
        /\ trace[r2].calls = 1 /\ Route(r2) = "coaching"

(***************************************************************************)
(* C2.  A request whose sender does not match the configured allowed       *)
(* identity (the identity, compared without case, is not part of the       *)
(* sender) is rejected, and nothing downstream happens for it: no store    *)
(* read, no service call, no enrichment task, no row appended.             *)
(***************************************************************************)
SenderMatches(r) == contains(LowerSeq(data[r].from.v), LowerSeq(allowed))

\* C2: a handled request whose sender does not match is rejected (403 when
\* it has a payload) and has caused no read, call, enrichment or row.
C2_MismatchRejected ==
    \A r \in Reqs :
        Handled(r) /\ ~SenderMatches(r) =>
            /\ Rejected(r)
            /\ ~NoPayload(r) => response[r].status = 403
            /\ NoDownstreamWork(r)

\* a draft of 81 tokens from a sender that does not match was turned away
C2_Witness ==
    \E r \in Reqs :
        /\ Handled(r) /\ ~SenderMatches(r)
        /\ Len(BodyWords(r)) > 80
        /\ response[r].status = 403

(***************************************************************************)
(* C3.  The trailer parser, on any reply.                                  *)
(***************************************************************************)
IsTrailerLine(line) ==
    \/ startswith(line, PATTERNS)
    \/ startswith(line, SUMMARY)
    \/ startswith(line, DOMINANT_WEAKNESS)

\* the lines of the reply that carry no trailer prefix, in their order
OtherLines(reply) == SelectSeq(split(reply, NL), LAMBDA l : ~IsTrailerLine(l))

Parsed == fn = "get_coaching_response" /\ ret.done

\* C3 as claimed: the feedback body is all the other lines, verbatim and in
\* their original order, and no line of it carries a trailer prefix.
C3_BodyVerbatim ==
    Parsed =>
        /\ split(ret.val.feedback, NL) = OtherLines(arg)
        /\ \A i \in 1..Len(split(ret.val.feedback, NL)) :
               ~IsTrailerLine(split(ret.val.feedback, NL)[i])

\* C3 as amended: every line of the reply that starts with a trailer prefix
\* is dropped wherever it occurs, and the feedback body is the other lines
\* in their original order, joined by newlines, with the leading and the
\* trailing whitespace of the joined text stripped.
C3_BodyStripped ==
    Parsed => ret.val.feedback = strip(join(NL, OtherLines(arg)))

\* a reply with a trailer line between two other lines was parsed
C3_Witness ==
    /\ Parsed
    /\ \E i \in 2..(Len(split(arg, NL)) - 1) :
           /\ IsTrailerLine(split(arg, NL)[i])
           /\ split(arg, NL)[i - 1] = <<"x">>
           /\ split(arg, NL)[i + 1] = <<"x">>
    /\ ret.val.feedback = <<"x", NL, "x">>

(***************************************************************************)
(* C4.  A reply without any trailer line.                                  *)
(***************************************************************************)
NoTrailerLine(reply) ==
    \A i \in 1..Len(split(reply, NL)) : ~IsTrailerLine(split(reply, NL)[i])

DefaultFields ==
    /\ ret.val.patterns = <<>>
    /\ ret.val.summary = <<>>
    /\ ret.val.dominant_weakness = <<"W3">>

\* C4 as claimed: the fields default and the feedback body equals the reply
\* unchanged.
C4_BodyUnchanged ==
    Parsed /\ NoTrailerLine(arg) => DefaultFields /\ ret.val.feedback = arg

\* C4 as amended: parsing yields a verdict, patterns and summary are empty,
\* the dominant weakness is W3, and the feedback body equals the reply with
\* its leading and trailing whitespace stripped.
C4_BodyStrippedReply ==
    Parsed /\ NoTrailerLine(arg) =>
        /\ DOMAIN ret.val =
               {"feedback", "patterns", "summary", "dominant_weakness", "metrics"}
        /\ DefaultFields
        /\ ret.val.feedback = strip(arg)

\* a reply of several lines without a trailer line was parsed
C4_Witness ==
    /\ Parsed /\ NoTrailerLine(arg)
    /\ Len(split(arg, NL)) > 1
    /\ ret.val.feedback = arg

(***************************************************************************)
(* C5.  build_memory_context renders at most 4 session records, all from   *)
(* the last 4 entries of the list and in the order given; an empty history *)
(* gives the first-session sentinel.                                       *)
(***************************************************************************)
\* the rendered session records (row i of a history is dated i)
Rendered == SelectSeq(ret.val.lines, LAMBDA l : l.kind = "session")

\* C5: at most 4 records are rendered, each from one of the last 4 rows,
\* in the order of the list; the empty list gives the sentinel.
C5_LastFourInOrder ==
    fn = "build_memory_context" /\ ret.done =>
        /\ arg = <<>> => ret.val.first
        /\ Len(Rendered) <= 4
        /\ \A k \in 1..Len(Rendered) :
               LET i == Rendered[k].date[1]
               IN  /\ i \in 1..Len(arg)
                   /\ i > Len(arg) - 4
                   /\ Rendered[k].title = arg[i][2]
                   /\ Rendered[k].summary = arg[i][5]
        /\ \A k \in 1..(Len(Rendered) - 1) :
               Rendered[k].date[1] < Rendered[k + 1].date[1]

\* a history longer than four rows was rendered to four records
C5_Witness ==
    /\ fn = "build_memory_context" /\ ret.done
    /\ Len(arg) > 4
    /\ Len(Rendered) = 4

(***************************************************************************)
(* C6.  The response of a draft-bearing request is determined without      *)
(* waiting for the detached enrichment and is the same for every outcome   *)
(* of the enrichment: two requests with the same payload and the same      *)
(* service reply get the same response whatever their enrichments did, the *)
(* response carries nothing of the recommendation, and a handler that has  *)
(* started the thread can respond in every state of that thread.           *)
(***************************************************************************)
Responded(r) == response[r].status = 200 /\ Route(r) = "coaching"

\* C6: equal payload and reply give equal responses whatever the
\* enrichments did, and a response shows nothing of the recommendation.
C6_ResponseIgnoresEnrichment ==
    /\ \A r1, r2 \in Reqs :
           /\ Responded(r1) /\ Responded(r2)
           /\ data[r1] = data[r2]
           /\ trace[r1].replies = trace[r2].replies
           => response[r1] = response[r2]
    /\ \A r \in Reqs :
           Responded(r) =>
               /\ response[r].body.reading_html = NoRec
               /\ response[r].subject = <<"Coach Feedback">> \o local[r].draft_title
               /\ response[r].body.body =
                      markdown_to_html(local[r].result.feedback, <<>>, NoRec).body

\* two requests with the same payload and reply were answered, one whose
\* enrichment hung and one whose enrichment appended a recommendation
C6_Witness ==
    \E r1, r2 \in Reqs :
        /\ Responded(r1) /\ Responded(r2)
        /\ data[r1] = data[r2]
        /\ trace[r1].replies = trace[r2].replies
        /\ bg[r1] = "hung" /\ local[r1].rec = NoRec
        /\ bg[r2] = "done" /\ RowsOf(ReadingQueue, r2) # {}

(***************************************************************************)
(* C7.  If the generative-text call of a draft-bearing request fails, the  *)
(* call is not retried, the request fails with no display document, no     *)
(* enrichment task is started and no row is appended to either store.      *)
(***************************************************************************)
\* the coaching call of r raised
CoachingFailed(r) ==
    /\ Handled(r) /\ Accepted(r)
    /\ Route(r) = "coaching"
    /\ trace[r].calls > 0
    /\ trace[r].replies = <<>>

\* C7: after a failed coaching call there was exactly one call, the request
\* ended with a 500 and no document, no thread was started and no row written.
C7_ServiceFailureIsHard ==
    \A r \in Reqs :
        CoachingFailed(r) =>
            /\ trace[r].calls = 1
            /\ pc[r] = "done"
            /\ response[r].status = 500
            /\ "body" \notin DOMAIN response[r]
            /\ NoEnrichment(r)
            /\ NoRowAppended(r)

\* a coaching call failed while another request's enrichment wrote its rows
C7_Witness ==
    \E r, q \in Reqs :
        /\ CoachingFailed(r)
        /\ response[r].status = 500
        /\ RowsOf(SessionLog, q) # {}

(***************************************************************************)
(* C9.  A request without draft text.                                      *)
(***************************************************************************)
NoDraftText(r) == BodyWords(r) = <<>>

\* C9 as claimed: a request whose body is missing or empty is rejected at
\* once, with no store read and no generative-text service call.
C9_NoTextRejected ==
    \A r \in Reqs :
        pc[r] = "done" /\ NoDraftText(r) =>
            /\ Rejected(r)
            /\ trace[r].reads = 0
            /\ trace[r].calls = 0

\* C9 as amended: a request without any payload is rejected at once and
\* nothing downstream happens for it; a request that has a payload and an
\* acceptable sender but a missing or empty body is not rejected: it takes
\* the excuse path.
C9_NoPayloadRejected ==
    \A r \in Reqs :
        Handled(r) /\ NoDraftText(r) =>
            IF NoPayload(r)
            THEN /\ pc[r] = "done" /\ response[r].status = 400
                 /\ NoDownstreamWork(r)
            ELSE SenderMatches(r) =>
                     /\ ~Rejected(r)
                     /\ Route(r) = "excuse"
                     /\ pc[r] = "done" => trace[r].calls = 1

\* a request with no payload was rejected, and one with a sender but no body
\* was answered on the excuse path
C9_Witness ==
    \E r1, r2 \in Reqs :
        /\ Handled(r1) /\ NoPayload(r1) /\ response[r1].status = 400
        /\ Handled(r2) /\ ~NoPayload(r2) /\ ~data[r2].body.has
        /\ response[r2].status = 200 /\ trace[r2].calls = 1

(***************************************************************************)
(* C10.  A request classified as a non-draft uses neither session memory   *)
(* nor a scorecard, its service reply is passed on unparsed (lines with a  *)
(* trailer prefix included), no enrichment task is started and no row is   *)
(* appended to any store.                                                  *)
(***************************************************************************)
RECURSIVE Flatten(_)
\* the tokens of the paragraph blocks of a document, block after block
Flatten(blocks) ==
    IF blocks = <<>> THEN <<>> ELSE Head(blocks).content \o Flatten(Tail(blocks))

\* the tokens of a text other than blanks and line breaks
Visible(text) == SelectSeq(text, LAMBDA t : t \notin {SP, NL, "<br>"})

\* C10: on the excuse route the prompt has no memory and no scorecard, the
\* document shows the whole reply, no thread is started and no row written.
C10_ExcusePathIsBare ==
    \A r \in Reqs :
        Accepted(r) /\ Len(BodyWords(r)) <= 80 =>
            /\ Route(r) = "excuse"
            /\ \A i \in 1..Len(trace[r].prompts) :
                   /\ trace[r].prompts[i].kind = "excuse"
                   /\ trace[r].prompts[i].memory.lines = <<>>
                   /\ ~trace[r].prompts[i].memory.first
                   /\ trace[r].prompts[i].metrics.empty
            /\ local[r].result = NoResult
            /\ response[r].status = 200 =>
                   /\ Visible(Flatten(response[r].body.body)) = Visible(trace[r].replies[1])
                   /\ response[r].body.metrics_html = <<>>
                   /\ response[r].body.reading_html = NoRec
            /\ NoEnrichment(r)
            /\ NoRowAppended(r)

\* an excuse was answered with a reply that has a PATTERNS: line, and the
\* line is in the document, while the session log holds a row of a draft
C10_Witness ==
    \E r \in Reqs :
        /\ Accepted(r) /\ Len(BodyWords(r)) <= 80
        /\ response[r].status = 200
        /\ \E i \in 1..Len(Flatten(response[r].body.body)) :
               Flatten(response[r].body.body)[i] = PATTERNS
        /\ local[r].session_log # <<>>

(***************************************************************************)
(* C8.  compute_metrics returns the empty scorecard exactly when the text  *)
(* has fewer than 50 whitespace-delimited tokens; in every other scorecard *)
(* scene_ratio_pct is in [0, 100], qualifier_per_500 and                   *)
(* concrete_abstract_ratio are at least 0, and the denominators of the     *)
(* divisions are at least 1.                                               *)
(***************************************************************************)
Scored == fn = "compute_metrics" /\ ret.done

\* C8: the scorecard is empty exactly below 50 tokens; otherwise the three
\* rates are in range (tenths and hundredths) and the denominators positive.
C8_ScorecardRanges ==
    Scored =>
        LET words == Expand(arg)
        IN  /\ ret.val.empty <=> Len(words) < 50
            /\ ~ret.val.empty =>
                   /\ ret.val.scene_ratio_pct >= 0
                   /\ ret.val.scene_ratio_pct <= 1000
                   /\ ret.val.qualifier_per_500 >= 0
                   /\ ret.val.concrete_abstract_ratio >= 0
                   /\ ret.val.word_count = Len(words)
                   /\ Len(words) >= 1
                   /\ AbstractDenominator(NumAbstract(words)) >= 1

\* a text of exactly 50 words without any abstract word was scored, with
\* every word a scene verb
C8_Witness ==
    /\ Scored
    /\ Len(Expand(arg)) = 50
    /\ ~ret.val.empty
    /\ NumAbstract(Expand(arg)) = 0
    /\ ret.val.scene_ratio_pct = 1000

(***************************************************************************)
(* C11.  What the enrichment thread of a draft-bearing request writes.      *)
(* The thread attempts the session-log append once and, when a             *)
(* recommendation with a title was found, the queue append once; each      *)
(* attempt that succeeds adds one row, each attempt that fails is          *)
(* swallowed by append_sheet and the thread goes on.                       *)
(***************************************************************************)
\* the enrichment thread of r returned
Completed(r) == bg[r] = "done"

\* the appends the thread of r attempted on a range
Attempts(r, range) ==
    {i \in 1..Len(trace[r].appends) : trace[r].appends[i].range = range}

\* one of them raised
Failed(r, range) == \E i \in Attempts(r, range) : ~trace[r].appends[i].ok

NumRows(rows, r) == Cardinality(RowsOf(rows, r))

\* the search of r found a recommendation with a title
Found(r) == local[r].rec.found /\ local[r].rec.title # <<>>

\* C11 as stated: with the store available a completed enrichment has
\* appended one session-log row, and a queue row exactly when a
\* recommendation was found; no queue row exists without the session-log
\* row of the same session.
C11_QueueRowNeedsLogRow ==
    \A r \in Reqs :
        /\ Completed(r) /\ local[r].sheets
           /\ ~Failed(r, "Session Log") /\ ~Failed(r, "Reading Queue")
           => /\ NumRows(SessionLog, r) = 1
              /\ NumRows(ReadingQueue, r) = IF Found(r) THEN 1 ELSE 0
        /\ RowsOf(ReadingQueue, r) # {} => RowsOf(SessionLog, r) # {}

\* C11: a completed enrichment with the store configured attempted the
\* session-log append once and the queue append once exactly when a
\* recommendation was found, whatever the search did and whatever the
\* session-log append did; each range holds one row of the request per
\* attempt that succeeded.  Without the store nothing is attempted.
C11_RowsFollowAppends ==
    \A r \in Reqs :
        Completed(r) =>
            /\ Len(trace[r].searches) = 1
            /\ Cardinality(Attempts(r, "Session Log")) = IF local[r].sheets THEN 1 ELSE 0
            /\ Cardinality(Attempts(r, "Reading Queue")) =
                   IF local[r].sheets /\ Found(r) THEN 1 ELSE 0
            /\ NumRows(SessionLog, r) =
                   IF local[r].sheets /\ ~Failed(r, "Session Log") THEN 1 ELSE 0
            /\ NumRows(ReadingQueue, r) =
                   IF local[r].sheets /\ Found(r) /\ ~Failed(r, "Reading Queue")
                   THEN 1 ELSE 0

\* one enrichment found nothing and appended its session-log row only;
\* another found a title, lost its session-log row to a failed append and
\* appended its queue row
C11_Witness ==
    \E r1, r2 \in Reqs :
        /\ Completed(r1) /\ local[r1].sheets /\ ~Found(r1)
        /\ NumRows(SessionLog, r1) = 1 /\ NumRows(ReadingQueue, r1) = 0
        /\ Completed(r2) /\ local[r2].sheets /\ Found(r2)
        /\ Failed(r2, "Session Log")
        /\ NumRows(SessionLog, r2) = 0 /\ NumRows(ReadingQueue, r2) = 1

(***************************************************************************)
(* C12.  The session log under concurrent requests.  Requests are numbered *)
(* in the order in which receive_draft took them up.  The log only grows   *)
(* at its end, and a row is dated no later than the day of its append; the *)
(* rows of two requests whose enrichments overlap stand in the order in    *)
(* which their appends reached the store, which is neither the order of    *)
(* the requests nor that of the dates.                                     *)
(***************************************************************************)
\* the day a row of the log carries (first cell)
Date(row) == row.cells[1][1]

\* row i of the log stands in order before row j: its request was handled
\* no later, or its date is no later
InOrder(i, j) ==
    \/ SessionLog[i].req <= SessionLog[j].req
    \/ Date(SessionLog[i]) <= Date(SessionLog[j])

\* C12 as stated: the insertion order of the log is chronological, a
\* session handled earlier or dated earlier never comes after a later one.
C12_Chronological ==
    \A i, j \in 1..Len(SessionLog) : i < j => InOrder(i, j)

\* C12: every step leaves the rows of the log as they are and adds at most
\* one row after them, and every row is dated no later than the current
\* day.
C12_AppendOnly ==
    /\ [][/\ Len(SessionLog') \in {Len(SessionLog), Len(SessionLog) + 1}
          /\ SubSeq(SessionLog', 1, Len(SessionLog)) = SessionLog]_vars
    /\ [](\A i \in 1..Len(SessionLog) : Date(SessionLog[i]) <= clock)

\* after the rows of earlier sessions the log holds the row of the second
\* request, dated on the second day, before the row of the first request,
\* dated on the first day
C12_Witness ==
    \E i, j \in 1..Len(SessionLog) :
        /\ i < j
        /\ i > 1 /\ SessionLog[i - 1].req = 0
        /\ SessionLog[i].req = 2 /\ SessionLog[j].req = 1
        /\ Date(SessionLog[i]) = 1 /\ Date(SessionLog[j]) = 0

(***************************************************************************)
(* C13.  The history a draft request loads.  The handler reads the range   *)
(* "Session Log!A2:H50" and keeps the last six rows of it; the memory      *)
(* context renders the last four of those.                                 *)
(***************************************************************************)
\* the store read of r succeeded on a log that held records
ReadSome(r) == trace[r].seen > 0

\* the records of the log when r read it
SeenLog(r) == SubSeq(SessionLog, 1, trace[r].seen)

\* the last n of them, as cells
Newest(r, n) ==
    LET seen == SeenLog(r)
        from == Max(1, Len(seen) - n + 1)
    IN  [i \in 1..(Len(seen) - from + 1) |-> seen[from + i - 1].cells]

\* C13 as stated: the history loaded consists of the most recently
\* appended records and the newest row of the log is among them.
C13_NewestRowRead ==
    \A r \in Reqs :
        ReadSome(r) =>
            /\ local[r].session_log = Newest(r, ReadMaxRows)
            /\ \E i \in 1..Len(local[r].session_log) :
                   local[r].session_log[i] = SessionLog[trace[r].seen].cells
            /\ trace[r].prompts # <<>> =>
                   trace[r].prompts[1].memory.lines = RenderRows(Newest(r, MemoryRows))

\* a request read a log of 50 records: the history ends with record 49 and
\* the newest record is not in it
C13_StaleHistory ==
    \E r \in Reqs :
        /\ ReadSome(r)
        /\ trace[r].seen = SessionLogRangeRows + 1
        /\ Len(local[r].session_log) = ReadMaxRows
        /\ local[r].session_log[ReadMaxRows] = SessionLog[SessionLogRangeRows].cells
        /\ \A i \in 1..ReadMaxRows :
               local[r].session_log[i] # SessionLog[trace[r].seen].cells
        /\ SessionLog[trace[r].seen].req = 1 /\ r = 2

(***************************************************************************)
(* C14.  The dominant weakness of a verdict.  The parser keeps the text of *)
(* the last line that starts with DOMINANT_WEAKNESS:, whatever it is, and  *)
(* W3 when there is no such line; the text is matched against the closed   *)
(* set only later, by the lookup of get_live_reading_rec.                  *)
(***************************************************************************)
IsCode(text) == \E w \in WeaknessCodes : text = <<w>>

\* the lines of the reply that start with the DOMINANT_WEAKNESS: prefix
DominantLines(reply) ==
    SelectSeq(split(reply, NL), LAMBDA l : Len(l) > 0 /\ l[1] = DOMINANT_WEAKNESS)

\* what follows the prefix on such a line, without the surrounding blanks
DominantText(line) == strip(SelectSeq(line, LAMBDA t : t # DOMINANT_WEAKNESS))

\* C14 as stated: for every reply the dominant weakness of the verdict is
\* one code of the closed set W1..W7.
C14_DominantInClosedSet ==
    Parsed => IsCode(ret.val.dominant_weakness)

\* C14: the dominant weakness of the verdict is the text of the last
\* DOMINANT_WEAKNESS: line of the reply, empty or unrecognized as it may
\* be, and W3 when the reply has no such line; the problem statement of the
\* search is that of the code when the text is a code of the closed set and
\* the generic one otherwise.
C14_DominantIsLastLine ==
    Parsed =>
        LET lines == DominantLines(arg)
            dominant == ret.val.dominant_weakness
        IN  /\ dominant = IF lines = <<>> THEN <<"W3">>
                          ELSE DominantText(lines[Len(lines)])
            /\ Problem(dominant) = IF IsCode(dominant) THEN dominant[1]
                                   ELSE "scene-building and specificity"

\* a reply with two DOMINANT_WEAKNESS: lines was parsed, the first with a
\* code and the last with unrecognized text, and the verdict carries that
\* text
C14_Witness ==
    /\ Parsed
    /\ Len(DominantLines(arg)) = 2
    /\ IsCode(DominantText(DominantLines(arg)[1]))
    /\ ~IsCode(DominantText(DominantLines(arg)[2]))
    /\ DominantText(DominantLines(arg)[2]) # <<>>
    /\ ret.val.dominant_weakness = DominantText(DominantLines(arg)[2])

(***************************************************************************)
(* C15.  Request scope.  background_tasks binds the verdict, the title,    *)
(* the word count and the scorecard of its request as default arguments    *)
(* when the handler defines it (line 584), so the thread of one request    *)
(* never sees what another request computed.                               *)
(***************************************************************************)
\* the verdict each coaching reply parses into
Verdicts == [reply \in CoachReplies |-> parse_reply(reply)]

\* the word count and the serialized scorecard of each body
WordCounts == [b \in Bodies |-> Len(Expand(b))]
Scorecards ==
    [b \in Bodies |-> join(", ", format_metrics_for_sheet(compute_metrics(Expand(b))))]

\* the verdict of request r, parsed again from the reply r received
VerdictOf(r) == Verdicts[trace[r].replies[1]]

\* row i of the session log carries the data of the request that appended it
OwnRow(i) ==
    LET r == SessionLog[i].req
        row == SessionLog[i].cells
    IN  /\ row[2] = DraftTitle(data[r].subject.v)
        /\ row[3] = <<WordCounts[data[r].body.v]>>
        /\ row[4] = VerdictOf(r).patterns
        /\ row[5] = VerdictOf(r).summary
        /\ row[6] = Scorecards[data[r].body.v]

\* the search of r was asked about the dominant weakness of r's verdict
OwnSearch(r) ==
    /\ Len(trace[r].searches) = 1
    /\ trace[r].searches[1].problem = Problem(VerdictOf(r).dominant_weakness)
    /\ trace[r].searches[1].patterns = VerdictOf(r).patterns

\* C15: every row of the session log carries the title, word count, pattern
\* codes, summary and scorecard of the request whose thread appended it, and
\* every search was asked about the dominant weakness of its own request.
C15_RequestScoped ==
    /\ \A i \in 1..Len(SessionLog) : OwnRow(i)
    /\ \A r \in Reqs : trace[r].searches # <<>> => OwnSearch(r)

\* two requests that differ in title, word count, patterns, scorecard and
\* dominant weakness were in flight together: the row of the second stands
\* in the log before the row of the first
C15_Witness ==
    \E i, j \in 1..Len(SessionLog) :
        /\ i < j
        /\ SessionLog[i].req = 2 /\ SessionLog[j].req = 1
        /\ \A k \in {2, 3, 4, 5, 6} : SessionLog[i].cells[k] # SessionLog[j].cells[k]
        /\ trace[1].searches # <<>> /\ trace[2].searches # <<>>
        /\ trace[1].searches[1].problem # trace[2].searches[1].problem

====
